---- MODULE Spec2Model ----
(***************************************************************************)
(* Colloid boundary links of Ludwig (tags/DIST_NEW_OLD/src/build.c).       *)
(*                                                                         *)
(* The lattice is the D2Q9 model on an NX x NY local domain with a halo of *)
(* width nhalo_ (the k loops of build.c run over one layer and are         *)
(* dropped).  Real numbers are exact rationals:                            *)
(*   - lengths (r, a0, rb, velocities) are integers in units of 1/Q of a   *)
(*     lattice spacing, so that lambda = 0.5 is the integer 2;             *)
(*   - quadrature weights are integers in units of 1/36;                   *)
(*   - distributions, order parameters and the conservation accumulators   *)
(*     are fractions [n, d]; [0, 0] is the IEEE not-a-number that 0.0 *    *)
(*     (1.0/0.0) produces.                                                 *)
(***************************************************************************)
EXTENDS Integers, Sequences, FiniteSets, TLC

\* ---------------------------------------------------------------- bounds
NX == 4
NY == 2
MaxSteps == 3

\* ------------------------------------------------------ program constants
nhalo_ == 1
NVEL == 9
lambda == 2
Q == 2 * lambda

X == 1
Y == 2

\* Site and link status values (site_map.h, colloids.h)
FLUID == "FLUID"
SOLID == "SOLID"
COLLOID == "COLLOID"
BOUNDARY == "BOUNDARY"
LINK_FLUID == "LINK_FLUID"
LINK_COLLOID == "LINK_COLLOID"
LINK_BOUNDARY == "LINK_BOUNDARY"
LINK_UNUSED == "LINK_UNUSED"

\* Pointer values of the colloid maps: NULL, a colloid, or a wild pointer
\* (coll_map and coll_old are malloc'ed and never initialised).
NULL == 0
WILD == 99
Particles == {1, 2}

\* D2Q9 velocity set and weights (units of 1/36)
cv == [p \in 0..(NVEL - 1) |->
        <<<<0, 0>>, <<1, 1>>, <<1, 0>>, <<1, -1>>, <<0, 1>>,
          <<0, -1>>, <<-1, 1>>, <<-1, 0>>, <<-1, -1>>>>[p + 1]]
wv == [p \in 0..(NVEL - 1) |-> <<16, 1, 4, 1, 4, 4, 1, 4, 1>>[p + 1]]

N == <<NX, NY>>
L(d) == N[d]
is_periodic(d) == TRUE

\* ------------------------------------------------------------ arithmetic
RECURSIVE GCD(_, _)
GCD(a, b) == IF b = 0 THEN a ELSE GCD(b, a % b)
Abs(a) == IF a < 0 THEN -a ELSE a

NaN == [n |-> 0, d |-> 0]
IsNaN(x) == x.d = 0
Rat(n, d) ==
  IF d = 0 THEN NaN
  ELSE LET g == GCD(Abs(n), Abs(d))
           s == IF d < 0 THEN -1 ELSE 1
       IN  [n |-> s * (n \div g), d |-> s * (d \div g)]
RInt(k) == [n |-> k, d |-> 1]
RAdd(x, y) == IF IsNaN(x) \/ IsNaN(y) THEN NaN
              ELSE IF x.d = 1 /\ y.d = 1 THEN RInt(x.n + y.n)
              ELSE Rat(x.n * y.d + y.n * x.d, x.d * y.d)
RNeg(x) == [n |-> -x.n, d |-> x.d]
RSub(x, y) == RAdd(x, RNeg(y))
RMul(x, y) == IF IsNaN(x) \/ IsNaN(y) THEN NaN
              ELSE IF x.d = 1 /\ y.d = 1 THEN RInt(x.n * y.n)
              ELSE Rat(x.n * y.n, x.d * y.d)
RScale(k, x) == RMul(RInt(k), x)
\* 1.0/weight for an integer weight: 1.0/0.0 is +Inf, and every product the
\* code forms with it has a zero first factor, giving a NaN.
RInv(w) == IF w = 0 THEN NaN ELSE Rat(1, w)
RZero == RInt(0)

floor(x) == x \div Q
ceil(x) == -((-x) \div Q)
imax(a, b) == IF a > b THEN a ELSE b
imin(a, b) == IF a < b THEN a ELSE b
\* A function as an explicit table of its values
Table(fn) == fn @@ fn

\* --------------------------------------------------------------- lattice
yfac == 1
xfac == (NY + 2 * nhalo_) * yfac
nsites == (NX + 2 * nhalo_) * (NY + 2 * nhalo_)
Sites == 0..(nsites - 1)

get_site_index(ic, jc) ==
  xfac * (ic - 1 + nhalo_) + yfac * (jc - 1 + nhalo_)

\* COM_index2coord, tabulated over the sites
COM_index2coord ==
  [index \in Sites |->
     <<(1 - nhalo_) + index \div xfac,
       (1 - nhalo_) + (index % xfac) \div yfac>>]

COLL_fcoords_from_ijk(i, j) == <<Q * i, Q * j>>

sep1(d, x) ==
  IF ~is_periodic(d) THEN x
  ELSE LET y == IF 2 * x > Q * L(d) THEN x - Q * L(d) ELSE x
       IN  IF 2 * y < -(Q * L(d)) THEN y + Q * L(d) ELSE y

COLL_fvector_separation(r1, r2) ==
  <<sep1(X, r2[X] - r1[X]), sep1(Y, r2[Y] - r1[Y])>>

UTIL_dot_product(a, b) == a[X] * b[X] + a[Y] * b[Y]
\* z component of the cross product of two vectors of the lattice plane
UTIL_cross_product(a, b) == a[X] * b[Y] - a[Y] * b[X]

\* ----------------------------------------------------------------- state
VARIABLES
  pc,        \* next stage of the time step
  nstep,     \* time steps started
  colloid,   \* Colloid structs, by particle
  coll_map,  \* build.c:31
  coll_old,  \* build.c:32
  site_map,  \* site status
  f,         \* distribution 0
  g,         \* distribution 1 (order parameter, when not finite difference)
  phi,       \* order parameter site values (finite difference)
  fd,        \* phi_is_finite_difference()
  walls,     \* boundaries_present()
  rrlog,     \* corrections applied by the last COLL_remove_or_replace_fluid
  built,     \* particles the last COLL_update_links fully rebuilt
  rlast,     \* centre of each particle at its last full rebuild
  order_,    \* advection.c:53
  hydro,     \* velocity field, by site index
  field,     \* field data, by nf*index + n
  flux       \* advective fluxes fw, fe, fy, by nf*index + n

collvars == <<pc, nstep, colloid, coll_map, coll_old, site_map, f, g, phi, fd,
              walls, rrlog, built, rlast>>
advvars == <<order_, hydro, field, flux>>
vars == <<collvars, advvars>>

\* ============================================================ advection.c
\* Lattice of the advection routines: local sites 1..NX by 1..NY inside a
\* halo of width nhalo, nf field components per site.  Velocities and field
\* values are integers; a face velocity is held doubled (u0 + u1 for
\* 0.5*(u0 + u1)) and a stencil weight in units of 1/Micro, so that a flux
\* is held exactly, in units of 1/(2 Micro).
nhalo == 3
nf == 2
Micro == 1000000
Nall == <<NX + 2 * nhalo, NY + 2 * nhalo>>
tc_nSites == Nall[X] * Nall[Y]
FluxIndex == 0..(nf * tc_nSites - 1)

targetIndex3D(c0, c1) == Nall[Y] * c0 + c1
le_site_index(ic, jc) == targetIndex3D(nhalo + ic - 1, nhalo + jc - 1)
\* no Lees-Edwards planes: the buffer index of ic + di is ic + di
le_index_real_to_buffer(ic, di) == ic + di

\* u0[d] + u1[d], twice the face velocity u = 0.5*(u0[d] + u1[d])
FaceU(hy, index0, index1, d) == hy[index0][d] + hy[index1][d]

\* ---- advection_le_1st: first order upwind
fw_1st(hy, fl, ic, jc, n) ==
  LET index0 == le_site_index(ic, jc)
      index1 == le_site_index(le_index_real_to_buffer(ic, -1), jc)
      u == FaceU(hy, index0, index1, X)
  IN  IF u > 0 THEN u * Micro * fl[nf * index1 + n]
      ELSE u * Micro * fl[nf * index0 + n]

fe_1st(hy, fl, ic, jc, n) ==
  LET index0 == le_site_index(ic, jc)
      index1 == le_site_index(le_index_real_to_buffer(ic, 1), jc)
      u == FaceU(hy, index0, index1, X)
  IN  IF u < 0 THEN u * Micro * fl[nf * index1 + n]
      ELSE u * Micro * fl[nf * index0 + n]

fy_1st(hy, fl, ic, jc, n) ==
  LET index0 == le_site_index(ic, jc)
      index1 == le_site_index(ic, jc + 1)
      u == FaceU(hy, index0, index1, Y)
  IN  IF u < 0 THEN u * Micro * fl[nf * index1 + n]
      ELSE u * Micro * fl[nf * index0 + n]

\* ---- advection_le_2nd: centred, u*0.5*(f1 + f0)
fw_2nd(hy, fl, ic, jc, n) ==
  LET index0 == le_site_index(ic, jc)
      index1 == le_site_index(le_index_real_to_buffer(ic, -1), jc)
      u == FaceU(hy, index0, index1, X)
  IN  u * (Micro \div 2) * (fl[nf * index1 + n] + fl[nf * index0 + n])

fe_2nd(hy, fl, ic, jc, n) ==
  LET index0 == le_site_index(ic, jc)
      index1 == le_site_index(le_index_real_to_buffer(ic, 1), jc)
      u == FaceU(hy, index0, index1, X)
  IN  u * (Micro \div 2) * (fl[nf * index1 + n] + fl[nf * index0 + n])

fy_2nd(hy, fl, ic, jc, n) ==
  LET index0 == le_site_index(ic, jc)
      index1 == le_site_index(ic, jc + 1)
      u == FaceU(hy, index0, index1, Y)
  IN  u * (Micro \div 2) * (fl[nf * index1 + n] + fl[nf * index0 + n])

\* ---- advection_le_3rd_lattice: three points biased upwind; the site is
\* given by its array coordinates (c0, c1), halo included
a1_3rd == -213933
a2_3rd == 927865
a3_3rd == 286067

fw_3rd(hy, fl, c0, c1, n) ==
  LET index0 == targetIndex3D(c0, c1)
      index1 == targetIndex3D(c0 - 1, c1)
      u == FaceU(hy, index0, index1, X)
  IN  IF u > 0
      THEN LET index2 == targetIndex3D(c0 - 2, c1)
           IN  u * (a1_3rd * fl[nf * index2 + n]
                    + a2_3rd * fl[nf * index1 + n]
                    + a3_3rd * fl[nf * index0 + n])
      ELSE LET index2 == targetIndex3D(c0 + 1, c1)
           IN  u * (a1_3rd * fl[nf * index2 + n]
                    + a2_3rd * fl[nf * index0 + n]
                    + a3_3rd * fl[nf * index1 + n])

fe_3rd(hy, fl, c0, c1, n) ==
  LET index0 == targetIndex3D(c0, c1)
      index1 == targetIndex3D(c0 + 1, c1)
      u == FaceU(hy, index0, index1, X)
  IN  IF u < 0
      THEN LET index2 == targetIndex3D(c0 + 2, c1)
           IN  u * (a1_3rd * fl[nf * index2 + n]
                    + a2_3rd * fl[nf * index1 + n]
                    + a3_3rd * fl[nf * index0 + n])
      ELSE LET index2 == targetIndex3D(c0 - 1, c1)
           IN  u * (a1_3rd * fl[nf * index2 + n]
                    + a2_3rd * fl[nf * index0 + n]
                    + a3_3rd * fl[nf * index1 + n])

fy_3rd(hy, fl, c0, c1, n) ==
  LET index0 == targetIndex3D(c0, c1)
      index1 == targetIndex3D(c0, c1 + 1)
      u == FaceU(hy, index0, index1, Y)
  IN  IF u < 0
      THEN LET index2 == targetIndex3D(c0, c1 + 2)
           IN  u * (a1_3rd * fl[nf * index2 + n]
                    + a2_3rd * fl[nf * index1 + n]
                    + a3_3rd * fl[nf * index0 + n])
      ELSE LET index2 == targetIndex3D(c0, c1 - 1)
           IN  u * (a1_3rd * fl[nf * index2 + n]
                    + a2_3rd * fl[nf * index0 + n]
                    + a3_3rd * fl[nf * index1 + n])

\* ---- advection_le_4th: four points, weights 1/16 and 9/16
a1_4th == Micro \div 16
a2_4th == (9 * Micro) \div 16

fw_4th(hy, fl, ic, jc, n) ==
  LET icm2 == le_index_real_to_buffer(ic, -2)
      icm1 == le_index_real_to_buffer(ic, -1)
      icp1 == le_index_real_to_buffer(ic, 1)
      index0 == le_site_index(ic, jc)
      index1 == le_site_index(icm1, jc)
      u == FaceU(hy, index0, index1, X)
  IN  u * (- a1_4th * fl[nf * le_site_index(icm2, jc) + n]
           + a2_4th * fl[nf * index1 + n]
           + a2_4th * fl[nf * index0 + n]
           - a1_4th * fl[nf * le_site_index(icp1, jc) + n])

fe_4th(hy, fl, ic, jc, n) ==
  LET icm1 == le_index_real_to_buffer(ic, -1)
      icp1 == le_index_real_to_buffer(ic, 1)
      icp2 == le_index_real_to_buffer(ic, 2)
      index0 == le_site_index(ic, jc)
      index1 == le_site_index(icp1, jc)
      u == FaceU(hy, index0, index1, X)
  IN  u * (- a1_4th * fl[nf * le_site_index(icm1, jc) + n]
           + a2_4th * fl[nf * index0 + n]
           + a2_4th * fl[nf * index1 + n]
           - a1_4th * fl[nf * le_site_index(icp2, jc) + n])

fy_4th(hy, fl, ic, jc, n) ==
  LET index0 == le_site_index(ic, jc)
      index1 == le_site_index(ic, jc + 1)
      u == FaceU(hy, index0, index1, Y)
  IN  u * (- a1_4th * fl[nf * le_site_index(ic, jc - 1) + n]
           + a2_4th * fl[nf * index0 + n]
           + a2_4th * fl[nf * index1 + n]
           - a1_4th * fl[nf * le_site_index(ic, jc + 2) + n])

\* ---- advection_le_5th: five points biased upwind
a1_5th == 55453
a2_5th == -305147
a3_5th == 916054
a4_5th == 361520
a5_5th == -27880

fw_5th(hy, fl, ic, jc, n) ==
  LET icm3 == le_index_real_to_buffer(ic, -3)
      icm2 == le_index_real_to_buffer(ic, -2)
      icm1 == le_index_real_to_buffer(ic, -1)
      icp1 == le_index_real_to_buffer(ic, 1)
      icp2 == le_index_real_to_buffer(ic, 2)
      index0 == le_site_index(ic, jc)
      index1 == le_site_index(icm1, jc)
      u == FaceU(hy, index0, index1, X)
  IN  IF u > 0
      THEN u * (a1_5th * fl[nf * le_site_index(icm3, jc) + n]
                + a2_5th * fl[nf * le_site_index(icm2, jc) + n]
                + a3_5th * fl[nf * index1 + n]
                + a4_5th * fl[nf * index0 + n]
                + a5_5th * fl[nf * le_site_index(icp1, jc) + n])
      ELSE u * (a1_5th * fl[nf * le_site_index(icp2, jc) + n]
                + a2_5th * fl[nf * le_site_index(icp1, jc) + n]
                + a3_5th * fl[nf * index0 + n]
                + a4_5th * fl[nf * index1 + n]
                + a5_5th * fl[nf * le_site_index(icm2, jc) + n])

fe_5th_westtest(hy, fl, ic, jc, n) ==
  LET icm2 == le_index_real_to_buffer(ic, -2)
      icm1 == le_index_real_to_buffer(ic, -1)
      icp1 == le_index_real_to_buffer(ic, 1)
      icp2 == le_index_real_to_buffer(ic, 2)
      icp3 == le_index_real_to_buffer(ic, 3)
      index0 == le_site_index(ic, jc)
      index1 == le_site_index(icp1, jc)
      u == FaceU(hy, index0, index1, X)
  IN  IF u > 0
      THEN u * (a1_5th * fl[nf * le_site_index(icp3, jc) + n]
                + a2_5th * fl[nf * le_site_index(icp2, jc) + n]
                + a3_5th * fl[nf * index1 + n]
                + a4_5th * fl[nf * index0 + n]
                + a5_5th * fl[nf * le_site_index(icm1, jc) + n])
      ELSE u * (a1_5th * fl[nf * le_site_index(icm2, jc) + n]
                + a2_5th * fl[nf * le_site_index(icm1, jc) + n]
                + a3_5th * fl[nf * index0 + n]
                + a4_5th * fl[nf * index1 + n]
                + a5_5th * fl[nf * le_site_index(icp2, jc) + n])

fe_5th(hy, fl, ic, jc, n) ==
  LET icm2 == le_index_real_to_buffer(ic, -2)
      icm1 == le_index_real_to_buffer(ic, -1)
      icp1 == le_index_real_to_buffer(ic, 1)
      icp2 == le_index_real_to_buffer(ic, 2)
      icp3 == le_index_real_to_buffer(ic, 3)
      index0 == le_site_index(ic, jc)
      index1 == le_site_index(icp1, jc)
      u == FaceU(hy, index0, index1, X)
  IN  IF u < 0
      THEN u * (a1_5th * fl[nf * le_site_index(icp3, jc) + n]
                + a2_5th * fl[nf * le_site_index(icp2, jc) + n]
                + a3_5th * fl[nf * index1 + n]
                + a4_5th * fl[nf * index0 + n]
                + a5_5th * fl[nf * le_site_index(icm1, jc) + n])
      ELSE u * (a1_5th * fl[nf * le_site_index(icm2, jc) + n]
                + a2_5th * fl[nf * le_site_index(icm1, jc) + n]
                + a3_5th * fl[nf * index0 + n]
                + a4_5th * fl[nf * index1 + n]
                + a5_5th * fl[nf * le_site_index(icp2, jc) + n])

fy_5th(hy, fl, ic, jc, n) ==
  LET index0 == le_site_index(ic, jc)
      index1 == le_site_index(ic, jc + 1)
      u == FaceU(hy, index0, index1, Y)
  IN  IF u < 0
      THEN u * (a1_5th * fl[nf * le_site_index(ic, jc + 3) + n]
                + a2_5th * fl[nf * le_site_index(ic, jc + 2) + n]
                + a3_5th * fl[nf * index1 + n]
                + a4_5th * fl[nf * index0 + n]
                + a5_5th * fl[nf * le_site_index(ic, jc - 1) + n])
      ELSE u * (a1_5th * fl[nf * le_site_index(ic, jc - 2) + n]
                + a2_5th * fl[nf * le_site_index(ic, jc - 1) + n]
                + a3_5th * fl[nf * index0 + n]
                + a4_5th * fl[nf * index1 + n]
                + a5_5th * fl[nf * le_site_index(ic, jc + 2) + n])

\* ---- the loops over the sites
\* array coordinates (halo included) of a site index
targetCoords3D(index) == <<index \div Nall[Y], index % Nall[Y]>>
\* sites (ic, jc) visited by the loops of orders 1, 2, 4 and 5
InLoop(ic, jc) == ic \in 1..NX /\ jc \in 0..NY
\* the test "if not a halo site" of the third order kernel, on array
\* coordinates
InKernel(c0, c1) ==
  /\ c0 >= nhalo
  /\ c1 >= 0
  /\ c0 < Nall[X] - nhalo
  /\ c1 < Nall[Y] - nhalo

\* The entries nf*index + n of the flux arrays that a sweep assigns: those
\* of the sites (ic, jc) of the loops, and those of the array coordinates
\* that pass the test of the kernel
IcOf(k) == targetCoords3D(k \div nf)[1] - (nhalo - 1)
JcOf(k) == targetCoords3D(k \div nf)[2] - (nhalo - 1)
LoopIndex == {k \in FluxIndex : InLoop(IcOf(k), JcOf(k))}
KernelIndex ==
  {k \in FluxIndex :
     InKernel(targetCoords3D(k \div nf)[1], targetCoords3D(k \div nf)[2])}
\* A flux array after the entries val have been stored: every other entry
\* is left as it was
Store(old, val) ==
  Table([k \in FluxIndex |-> IF k \in DOMAIN val THEN val[k] ELSE old[k]])

advection_le_1st(fx, hy, fl) ==
  [fw |-> Store(fx.fw, [k \in LoopIndex |->
                     fw_1st(hy, fl, IcOf(k), JcOf(k), k % nf)]),
   fe |-> Store(fx.fe, [k \in LoopIndex |->
                     fe_1st(hy, fl, IcOf(k), JcOf(k), k % nf)]),
   fy |-> Store(fx.fy, [k \in LoopIndex |->
                     fy_1st(hy, fl, IcOf(k), JcOf(k), k % nf)])]

advection_le_2nd(fx, hy, fl) ==
  [fw |-> Store(fx.fw, [k \in LoopIndex |->
                     fw_2nd(hy, fl, IcOf(k), JcOf(k), k % nf)]),
   fe |-> Store(fx.fe, [k \in LoopIndex |->
                     fe_2nd(hy, fl, IcOf(k), JcOf(k), k % nf)]),
   fy |-> Store(fx.fy, [k \in LoopIndex |->
                     fy_2nd(hy, fl, IcOf(k), JcOf(k), k % nf)])]

advection_le_3rd(fx, hy, fl) ==
  [fw |-> Store(fx.fw, [k \in KernelIndex |->
                     fw_3rd(hy, fl, targetCoords3D(k \div nf)[1],
                            targetCoords3D(k \div nf)[2], k % nf)]),
   fe |-> Store(fx.fe, [k \in KernelIndex |->
                     fe_3rd(hy, fl, targetCoords3D(k \div nf)[1],
                            targetCoords3D(k \div nf)[2], k % nf)]),
   fy |-> Store(fx.fy, [k \in KernelIndex |->
                     fy_3rd(hy, fl, targetCoords3D(k \div nf)[1],
                            targetCoords3D(k \div nf)[2], k % nf)])]

advection_le_4th(fx, hy, fl) ==
  [fw |-> Store(fx.fw, [k \in LoopIndex |->
                     fw_4th(hy, fl, IcOf(k), JcOf(k), k % nf)]),
   fe |-> Store(fx.fe, [k \in LoopIndex |->
                     fe_4th(hy, fl, IcOf(k), JcOf(k), k % nf)]),
   fy |-> Store(fx.fy, [k \in LoopIndex |->
                     fy_4th(hy, fl, IcOf(k), JcOf(k), k % nf)])]

advection_le_5th(fx, hy, fl) ==
  [fw |-> Store(fx.fw, [k \in LoopIndex |->
                     fw_5th(hy, fl, IcOf(k), JcOf(k), k % nf)]),
   fe |-> Store(fx.fe, [k \in LoopIndex |->
                     fe_5th(hy, fl, IcOf(k), JcOf(k), k % nf)]),
   fy |-> Store(fx.fy, [k \in LoopIndex |->
                     fy_5th(hy, fl, IcOf(k), JcOf(k), k % nf)])]

\* ---- inputs of an advection run
\* Velocity fields: a pattern of period UPeriod along the diagonals, each
\* entry -1, 0 or 1, so that faces of positive, negative and zero velocity
\* occur (zero both as 0 + 0 and as 1 + (-1)).
UPeriod == 3
UPatterns == [0..(UPeriod - 1) -> {-1, 0, 1}]
HydroOf(pat) ==
  Table([index \in 0..(tc_nSites - 1) |->
           <<pat[((index \div Nall[Y]) + (index % Nall[Y])) % UPeriod],
             pat[((index \div Nall[Y]) + 2 * (index % Nall[Y])) % UPeriod]>>])
\* Field data without symmetry under a shift of the site
FieldKinds == 2
FieldOf(m) == Table([k \in FluxIndex |-> (m * k * k + k) % 7])
ZeroFlux == Table([k \in FluxIndex |-> 0])

InitAdvection ==
  /\ order_ = 1
  /\ hydro \in {HydroOf(pat) : pat \in UPatterns}
  /\ field \in {FieldOf(m) : m \in 1..FieldKinds}
  /\ flux = [fw |-> ZeroFlux, fe |-> ZeroFlux, fy |-> ZeroFlux]

\* the advection state of a run that computes no flux
AdvectionIdle ==
  /\ order_ = 1
  /\ hydro = HydroOf([i \in 0..(UPeriod - 1) |-> 0])
  /\ field = FieldOf(1)
  /\ flux = [fw |-> ZeroFlux, fe |-> ZeroFlux, fy |-> ZeroFlux]


\* ------------------------------------------------------ inputs of a run
get_rho0 == RInt(36)
get_phi0 == RInt(0)

\* Site maps: all fluid; a wall in the halo plane ic = NX + 1 with an
\* obstacle at (NX, 1); a pore, solid except the channel jc = 1, ic >= 2.
StatusFluid == Table([s \in Sites |-> FLUID])
StatusWall ==
  Table([s \in Sites |->
           IF COM_index2coord[s][X] = NX + 1 \/ COM_index2coord[s] = <<NX, 1>>
           THEN BOUNDARY ELSE FLUID])
StatusPore ==
  Table([s \in Sites |->
           IF COM_index2coord[s][Y] = 1 /\ COM_index2coord[s][X] >= 2
           THEN FLUID ELSE SOLID])
StatusMaps == {StatusFluid, StatusWall, StatusPore}

boundaries_present == walls

\* Contents of the freshly malloc'ed colloid maps: zero pages, or a stale
\* word (a wild pointer, or the address a Colloid is later given) at a site
\* of the local domain or of the halo.
GarbageSite == get_site_index(NX, NY)
GarbageHalo == get_site_index(0, 1)
InitMaps ==
  {Table([s \in Sites |-> IF s = GarbageSite THEN w ELSE NULL]) :
     w \in {NULL, 1, WILD}}
  \cup {Table([s \in Sites |-> IF s = GarbageHalo THEN 1 ELSE NULL])}

\* Colloid 1 starts at (2.5, 1) and moves along x by 0, 1/2 or 1; colloid 2
\* starts at (NX, 2) and may step down to (NX, 1).  Both have radius 0.75.
InitPos == [p \in Particles |->
             IF p = 1 THEN <<2 * Q + lambda, Q>> ELSE <<NX * Q, 2 * Q>>]
Radius == [p \in Particles |-> Q - 1]
Velocity == [p \in Particles |-> IF p = 1 THEN <<1, 0>> ELSE <<0, 0>>]
Omega == [p \in Particles |-> IF p = 1 THEN 0 ELSE 1]
Displacements ==
  [p \in Particles |->
     IF p = 1 THEN {<<0, 0>>, <<lambda, 0>>, <<Q, 0>>}
     ELSE {<<0, 0>>, <<0, -Q>>}]

InitF ==
  Table([s \in Sites |->
           Table([p \in 0..(NVEL - 1) |-> RInt(wv[p] * (1 + (s % 3)))])])
InitG ==
  Table([s \in Sites |->
           Table([p \in 0..(NVEL - 1) |-> RInt(wv[p] * (s % 2))])])
InitPhi == Table([s \in Sites |-> RInt(s % 4)])

NewColloid(p) ==
  [r |-> InitPos[p], a0 |-> Radius[p], v |-> Velocity[p], omega |-> Omega[p],
   rebuild |-> TRUE,
   lnk |-> <<>>, sumw |-> 0, cbar |-> <<0, 0>>, rxcbar |-> 0,
   deltam |-> RZero, deltaphi |-> RZero, f0 |-> <<RZero, RZero>>,
   t0 |-> RZero]

Init ==
  /\ pc = "move"
  /\ nstep = 0
  /\ colloid = Table([p \in Particles |-> NewColloid(p)])
  /\ coll_map \in InitMaps
  /\ coll_old = coll_map
  /\ site_map \in StatusMaps
  /\ f = InitF
  /\ g = InitG
  /\ phi = InitPhi
  /\ fd \in BOOLEAN
  /\ walls = (\E s \in Sites : site_map[s] = BOUNDARY)
  /\ rrlog = <<>>
  /\ built = {}
  /\ rlast = Table([p \in Particles |-> <<>>])
  /\ AdvectionIdle

\* ------------------------------------------------- position update (external)
InRange(r) ==
  /\ r[X] >= 0 /\ r[X] <= Q * (NX + 1)
  /\ r[Y] >= 0 /\ r[Y] <= Q * (NY + 1)

Move ==
  /\ pc = "move"
  /\ nstep < MaxSteps
  /\ \E dr \in [Particles -> UNION {Displacements[p] : p \in Particles}] :
       /\ \A p \in Particles : dr[p] \in Displacements[p]
       /\ \A p \in Particles :
            InRange(<<colloid[p].r[X] + dr[p][X], colloid[p].r[Y] + dr[p][Y]>>)
       /\ colloid' = Table([p \in Particles |->
                              [colloid[p] EXCEPT
                                 !.r = <<@[X] + dr[p][X], @[Y] + dr[p][Y]>>]])
  /\ nstep' = nstep + 1
  /\ pc' = "map"
  /\ UNCHANGED <<coll_map, coll_old, site_map, f, g, phi, fd, walls, rrlog,
                 built, rlast>>
  /\ UNCHANGED advvars

\* --------------------------------------------------------- COLL_update_map
\* The order in which the cell lists present the colloids
CellOrder == <<1, 2>>

\* Site (i, j) lies in the cube around colloid c and inside its radius
InsideTest(c, i, j) ==
  LET r0 == c.r
      radius == c.a0
      rsq == radius * radius
      i_min == imax(1 - nhalo_, floor(r0[X] - radius))
      i_max == imin(N[X] + nhalo_, ceil(r0[X] + radius))
      j_min == imax(1 - nhalo_, floor(r0[Y] - radius))
      j_max == imin(N[Y] + nhalo_, ceil(r0[Y] + radius))
      rsite0 == COLL_fcoords_from_ijk(i, j)
      rsep == COLL_fvector_separation(rsite0, r0)
  IN  /\ i_min <= i /\ i <= i_max
      /\ j_min <= j /\ j <= j_max
      /\ UTIL_dot_product(rsep, rsep) < rsq

Inside(c, s) == InsideTest(c, COM_index2coord[s][X], COM_index2coord[s][Y])

\* Lines 143-197 for the colloids of order[k..]: each claims its sites
RECURSIVE ClaimSites(_, _, _)
ClaimSites(order, k, ms) ==
  IF k > Len(order) THEN ms
  ELSE LET p == order[k]
           ins == {s \in Sites : Inside(colloid[p], s)}
           cm == Table([s \in Sites |-> IF s \in ins THEN p ELSE ms.cm[s]])
           sm == Table([s \in Sites |->
                          IF s \in ins THEN COLLOID ELSE ms.sm[s]])
       IN  ClaimSites(order, k + 1, [cm |-> cm, sm |-> sm])

\* (COLL_update_map without coll_map[n] = NULL in the loop of lines 126-129)
COLL_update_map_keep ==
  /\ pc = "map"
  /\ \E ms \in {ClaimSites(CellOrder, 1,
                   [cm |-> coll_map,
                    sm |-> Table([s \in Sites |->
                                    IF site_map[s] = COLLOID THEN FLUID
                                    ELSE site_map[s]])])} :
         /\ coll_old' = coll_map
         /\ coll_map' = ms.cm
         /\ site_map' = ms.sm
  /\ pc' = "rr"
  /\ UNCHANGED <<nstep, colloid, f, g, phi, fd, walls, rrlog, built, rlast>>
  /\ UNCHANGED advvars

COLL_update_map ==
  /\ pc = "map"
  /\ \E ms \in {ClaimSites(CellOrder, 1,
                   [cm |-> Table([s \in Sites |-> NULL]),
                    sm |-> Table([s \in Sites |->
                                    IF site_map[s] = COLLOID THEN FLUID
                                    ELSE site_map[s]])])} :
         /\ coll_old' = coll_map
         /\ coll_map' = ms.cm
         /\ site_map' = ms.sm
  /\ pc' = "rr"
  /\ UNCHANGED <<nstep, colloid, f, g, phi, fd, walls, rrlog, built, rlast>>
  /\ UNCHANGED advvars

\* ------------------------------------------------- distribution accessors
RECURSIVE RSum(_, _, _)
\* sum of term[p] for p = from..(NVEL - 1), in the order of the code's loop
\* (a NaN stays a NaN whatever is added to it)
RSum(term, from, acc) ==
  IF IsNaN(acc) \/ from > NVEL - 1 THEN acc
  ELSE RSum(term, from + 1, RAdd(acc, term[from]))

distribution_zeroth_moment(dist, index) == RSum(dist[index], 0, RZero)
distribution_first_moment(dist, index) ==
  <<RSum([p \in 0..(NVEL - 1) |-> RScale(cv[p][X], dist[index][p])], 0, RZero),
    RSum([p \in 0..(NVEL - 1) |-> RScale(cv[p][Y], dist[index][p])], 0, RZero)>>

UTIL_fvector_add(a, b) == <<RAdd(a[X], b[X]), RAdd(a[Y], b[Y])>>
\* rb x u for an integer vector rb and a fractional vector u (z component)
CrossRU(rb, u) == RSub(RScale(rb[X], u[Y]), RScale(rb[Y], u[X]))

\* Vector from the centre of colloid c to the site index (lines 630-636)
SiteVector(c, index) ==
  LET ri == COM_index2coord[index]
  IN  COLL_fvector_separation(c.r, COLL_fcoords_from_ijk(ri[X], ri[Y]))

\* Index of the site next to index along cv[p] (lines 344-348, 705),
\* tabulated over the sites
Neighbour ==
  [index \in Sites |-> [p \in 0..(NVEL - 1) |->
     get_site_index(COM_index2coord[index][X] + cv[p][X],
                    COM_index2coord[index][Y] + cv[p][Y])]]

\* ------------------------------------------------------ build_remove_fluid
build_remove_fluid(index, c, dist) ==
  LET oldrho == distribution_zeroth_moment(dist, index)
      oldu == distribution_first_moment(dist, index)
      rb == SiteVector(c, index)
  IN  [c EXCEPT !.deltam = RSub(@, RSub(oldrho, get_rho0)),
                !.f0 = UTIL_fvector_add(@, oldu),
                !.t0 = RAdd(@, CrossRU(rb, oldu))]

\* -------------------------------------------- build_remove_order_parameter
build_remove_order_parameter(index, c, isfd, ph, dist1) ==
  LET phv == IF isfd THEN ph[index]
             ELSE distribution_zeroth_moment(dist1, index)
  IN  [c EXCEPT !.deltaphi = RAdd(@, RSub(phv, get_phi0))]

\* ------------------------------------------------------ exposed-site average
\* The directions p whose neighbour enters the average (lines 708, 795, 819)
\* (without the test of the previous map)
Eligible_anyold(index, p, old, sm) == ~(sm[Neighbour[index][p]] = SOLID)
\* (with a test of the current map as well)
Eligible_bothmaps(index, p, old, sm) ==
  ~(old[Neighbour[index][p]] # NULL \/ sm[Neighbour[index][p]] = SOLID
    \/ coll_map[Neighbour[index][p]] # NULL)
Eligible(index, p, old, sm) ==
  ~(old[Neighbour[index][p]] # NULL \/ sm[Neighbour[index][p]] = SOLID)

\* weight accumulated over p = from..(NVEL - 1)
RECURSIVE SumWeight(_, _, _, _, _)
SumWeight(index, from, old, sm, acc) ==
  IF from > NVEL - 1 THEN acc
  ELSE SumWeight(index, from + 1, old, sm,
                 IF Eligible(index, from, old, sm) THEN acc + wv[from] ELSE acc)

\* newf[pdash] accumulated over p = from..(NVEL - 1)
RECURSIVE SumDist(_, _, _, _, _, _, _)
SumDist(index, pdash, from, old, sm, dist, acc) ==
  IF IsNaN(acc) \/ from > NVEL - 1 THEN acc
  ELSE SumDist(index, pdash, from + 1, old, sm, dist,
               IF Eligible(index, from, old, sm)
               THEN RAdd(acc, RScale(wv[from], dist[Neighbour[index][from]][pdash]))
               ELSE acc)

\* The distribution written at a newly exposed site
NewDist(index, old, sm, dist) ==
  LET weight == RInv(SumWeight(index, 1, old, sm, 0))
  IN  Table([p \in 0..(NVEL - 1) |->
               RMul(SumDist(index, p, 1, old, sm, dist, RZero), weight)])

\* ----------------------------------------------------- build_replace_fluid
\* Returns the colloid and distribution 0 after the call
build_replace_fluid(index, c, old, sm, dist) ==
  LET newf == NewDist(index, old, sm, dist)
      newrho == RSum(newf, 0, RZero)
      newu == <<RSum([p \in 0..(NVEL - 1) |-> RNeg(RScale(cv[p][X], newf[p]))],
                     0, RZero),
                RSum([p \in 0..(NVEL - 1) |-> RNeg(RScale(cv[p][Y], newf[p]))],
                     0, RZero)>>
      rb == SiteVector(c, index)
  IN  [c |-> [c EXCEPT !.deltam = RAdd(@, RSub(newrho, get_rho0)),
                       !.f0 = UTIL_fvector_add(@, newu),
                       !.t0 = RAdd(@, CrossRU(rb, newu))],
       f |-> [dist EXCEPT ![index] = newf]]

\* ------------------------------------------- build_replace_order_parameter
\* phi[0] accumulated over p = from..(NVEL - 1) in finite-difference mode
RECURSIVE SumPhi(_, _, _, _, _, _)
SumPhi(index, from, old, sm, ph, acc) ==
  IF IsNaN(acc) \/ from > NVEL - 1 THEN acc
  ELSE SumPhi(index, from + 1, old, sm, ph,
              IF Eligible(index, from, old, sm)
              THEN RAdd(acc, RScale(wv[from], ph[index]))
              ELSE acc)

\* Returns the colloid, the site values and distribution 1 after the call
build_replace_order_parameter(index, c, old, sm, isfd, ph, dist1) ==
  LET weight == RInv(SumWeight(index, 1, old, sm, 0))
      newg == NewDist(index, old, sm, dist1)
      newphi == IF isfd THEN RZero ELSE RSum(newg, 0, RZero)
  IN  [c |-> [c EXCEPT !.deltaphi = RSub(@, RSub(newphi, get_phi0))],
       phi |-> IF isfd
               THEN [ph EXCEPT ![index] =
                       RMul(SumPhi(index, 1, old, sm, ph, RZero), weight)]
               ELSE ph,
       g |-> IF isfd THEN dist1 ELSE [dist1 EXCEPT ![index] = newg]]

\* -------------------------------------------- COLL_remove_or_replace_fluid
IsHalo(index) ==
  LET ri == COM_index2coord[index]
  IN  ri[X] < 1 \/ ri[Y] < 1 \/ ri[X] > N[X] \/ ri[Y] > N[Y]

\* (the newly occupied site corrected without the test of halo)
RRCovered_anysite(index, st) ==
  LET p == coll_map[index]
      c0 == [st.col[p] EXCEPT !.rebuild = TRUE]
      c1 == build_remove_fluid(index, c0, st.f)
      c2 == build_remove_order_parameter(index, c1, fd, st.phi, st.g)
  IN  [st EXCEPT !.col[p] = c2,
                 !.log = Append(@, [kind |-> "remove", site |-> index,
                                    owner |-> p, dm0 |-> c0.deltam,
                                    dm1 |-> c2.deltam])]

\* Lines 563-571: the site is newly occupied
RRCovered(index, st) ==
  LET p == coll_map[index]
      c0 == [st.col[p] EXCEPT !.rebuild = TRUE]
      c1 == build_remove_fluid(index, c0, st.f)
      c2 == build_remove_order_parameter(index, c1, fd, st.phi, st.g)
  IN  IF IsHalo(index)
      THEN [st EXCEPT !.col[p] = c0]
      ELSE [st EXCEPT !.col[p] = c2,
                      !.log = Append(@, [kind |-> "remove", site |-> index,
                                         owner |-> p, dm0 |-> c0.deltam,
                                         dm1 |-> c2.deltam])]

\* Lines 573-581: the site is newly vacated.  coll_old[index] is
\* dereferenced; a wild pointer ends the run.
RRExposed(index, st) ==
  LET p == coll_old[index]
  IN  IF p \notin Particles THEN [st EXCEPT !.crashed = TRUE]
      ELSE
        LET c0 == [st.col[p] EXCEPT !.rebuild = TRUE]
            r1 == build_replace_fluid(index, c0, coll_old, site_map, st.f)
            r2 == build_replace_order_parameter(index, r1.c, coll_old, site_map,
                                                fd, st.phi, st.g)
        IN  IF IsHalo(index)
            THEN [st EXCEPT !.col[p] = c0]
            ELSE [st EXCEPT !.col[p] = r2.c, !.f = r1.f, !.phi = r2.phi,
                            !.g = r2.g,
                            !.log = Append(@, [kind |-> "replace",
                                               site |-> index, owner |-> p,
                                               dm0 |-> c0.deltam,
                                               dm1 |-> r2.c.deltam])]

\* The tests of lines 563 (sold == 0 && snew == 1) and 573 (sold == 1 &&
\* snew == 0)
\* (the test of line 563 without sold == 0)
NewlyCovered_anyold(index) == coll_map[index] # NULL
NewlyCovered(index) == ~(coll_old[index] # NULL) /\ coll_map[index] # NULL
\* (the test of line 573 without snew == 0)
NewlyExposed_anynew(index) == coll_old[index] # NULL
NewlyExposed(index) == coll_old[index] # NULL /\ ~(coll_map[index] # NULL)

\* Lines 558-581: the body of the loops for one site
RRSite(index, st) ==
  LET st1 == IF NewlyCovered(index) THEN RRCovered(index, st) ELSE st
  IN  IF NewlyExposed(index) THEN RRExposed(index, st1) ELSE st1

\* The sites in the order of the loops of lines 551-553 (get_site_index is
\* increasing in (i, j)), and those of them at which one of the two tests
\* holds: the body does nothing at the others
SiteSeq == [k \in 1..nsites |-> k - 1]
ChangedSites ==
  LET Test(index) == NewlyCovered(index) \/ NewlyExposed(index)
  IN  SelectSeq(SiteSeq, Test)

\* The loop of lines 551-584 over sites[k..]
RECURSIVE RRLoop(_, _, _)
RRLoop(sites, k, st) ==
  IF k > Len(sites) \/ st.crashed THEN st
  ELSE RRLoop(sites, k + 1, RRSite(sites[k], st))

COLL_remove_or_replace_fluid ==
  /\ pc = "rr"
  /\ \E st \in {RRLoop(ChangedSites, 1,
                        [col |-> colloid, f |-> f, g |-> g, phi |-> phi,
                         log |-> <<>>, crashed |-> FALSE])} :
         /\ colloid' = st.col
         /\ f' = st.f
         /\ g' = st.g
         /\ phi' = st.phi
         /\ rrlog' = st.log
         /\ pc' = IF st.crashed THEN "crashed" ELSE "links"
  /\ UNCHANGED <<nstep, coll_map, coll_old, site_map, fd, walls, built,
                 rlast>>
  /\ UNCHANGED advvars

\* -------------------------------------------------- COLL_link_mean_contrib
COLL_link_mean_contrib(c, p, rb) ==
  LET rxc == UTIL_cross_product(rb, cv[p])
  IN  [c EXCEPT !.cbar = <<@[X] + wv[p] * cv[p][X], @[Y] + wv[p] * cv[p][Y]>>,
                !.rxcbar = @ + wv[p] * rxc,
                !.sumw = @ + wv[p]]

\* ----------------------------------------------- COLL_set_virtual_velocity
\* u is in units of 1/Q: f_p = wv[p]*(1 + 3 u.c)
COLL_set_virtual_velocity(dist, inode, p, u) ==
  LET uc == UTIL_dot_product(u, cv[p])
  IN  [dist EXCEPT ![inode][p] = Rat(wv[p] * (Q + 3 * uc), Q)]

\* Surface velocity omega x rb + v (omega along z)
SurfaceVelocity(c, rb) ==
  <<c.v[X] - c.omega * rb[Y], c.v[Y] + c.omega * rb[X]>>

\* (the status branch testing the colloid map in place of the site status)
SetLinkStatus_bymap(link, c, sm, dist) ==
  IF coll_map[link.i] = NULL
  THEN [l |-> [link EXCEPT !.status = LINK_FLUID],
        c |-> COLL_link_mean_contrib(c, link.v, link.rb),
        f |-> dist]
  ELSE [l |-> [link EXCEPT !.status = LINK_COLLOID],
        c |-> c,
        f |-> COLL_set_virtual_velocity(dist, link.j, link.v,
                                        SurfaceVelocity(c, link.rb))]
\* The status branch shared by rebuild and reset (lines 365-375, 502-513):
\* returns the link, the colloid and distribution 0
SetLinkStatus(link, c, sm, dist) ==
  IF sm[link.i] = FLUID
  THEN [l |-> [link EXCEPT !.status = LINK_FLUID],
        c |-> COLL_link_mean_contrib(c, link.v, link.rb),
        f |-> dist]
  ELSE [l |-> [link EXCEPT !.status = LINK_COLLOID],
        c |-> c,
        f |-> COLL_set_virtual_velocity(dist, link.j, link.v,
                                        SurfaceVelocity(c, link.rb))]

\* ------------------------------------------------------- the cube of sites
\* Limits of the cube around the particle (lines 314-319, 1029-1034)
CubeMin(c, d) == imax(1, floor(c.r[d] - c.a0))
CubeMax(c, d) == imin(N[d], ceil(c.r[d] + c.a0))

\* Every (site, direction) of the local domain as <<index, p, neighbour>>,
\* in the order of the loops over i, j and p
LocalPairs ==
  [m \in 1..(NX * NY * (NVEL - 1)) |->
     LET n == (m - 1) \div (NVEL - 1)
         p == 1 + ((m - 1) % (NVEL - 1))
         index == get_site_index(1 + (n \div NY), 1 + (n % NY))
     IN  <<index, p, Neighbour[index][p]>>]

\* The pairs visited by the loops over the cube of colloid c
InCube(c, index) ==
  /\ CubeMin(c, X) <= COM_index2coord[index][X]
  /\ COM_index2coord[index][X] <= CubeMax(c, X)
  /\ CubeMin(c, Y) <= COM_index2coord[index][Y]
  /\ COM_index2coord[index][Y] <= CubeMax(c, Y)
CubeSites(c) == {s \in Sites : InCube(c, s)}

\* Store a link at the cursor k (p_link): overwrite the k-th record, or
\* allocate one at the end of the list when p_link is NULL
PutLink_append(lnk, k, link) == Append(lnk, link)
PutLink(lnk, k, link) ==
  IF k <= Len(lnk) THEN [lnk EXCEPT ![k] = link] ELSE Append(lnk, link)

\* -------------------------------------------------- COLL_reconstruct_links
\* (the pairs when the cube is clipped to the halo-extended domain instead,
\* as the cube of COLL_update_map is)
LinkPairs_halobox(pid, c, cm) ==
  LET inbox(ij) == \A d \in {X, Y} :
                     /\ imax(1 - nhalo_, floor(c.r[d] - c.a0)) <= ij[d]
                     /\ ij[d] <= imin(N[d] + nhalo_, ceil(c.r[d] + c.a0))
      onlattice(ij) == \A d \in {X, Y} :
                         1 - nhalo_ <= ij[d] /\ ij[d] <= N[d] + nhalo_
      at(m) == COM_index2coord[(m - 1) \div (NVEL - 1)]
      dir(m) == 1 + ((m - 1) % (NVEL - 1))
      to(m) == <<at(m)[X] + cv[dir(m)][X], at(m)[Y] + cv[dir(m)][Y]>>
      all == [m \in 1..(nsites * (NVEL - 1)) |->
                <<get_site_index(at(m)[X], at(m)[Y]), dir(m),
                  IF onlattice(to(m)) THEN get_site_index(to(m)[X], to(m)[Y])
                  ELSE -1>>]
      Test(t) == /\ inbox(COM_index2coord[t[1]]) /\ t[3] # -1
                 /\ ~(cm[t[1]] = pid) /\ ~(cm[t[3]] # pid)
  IN  SelectSeq(all, Test)
\* The pairs of the cube that pass the two tests of lines 332 and 350
LinkPairs(pid, c, cm) ==
  LET cube == CubeSites(c)
      Test(t) == t[1] \in cube /\ ~(cm[t[1]] = pid) /\ ~(cm[t[3]] # pid)
  IN  SelectSeq(LocalPairs, Test)

\* Lines 352-420 for the pairs[m..]; st = [c, f, k] with k the position
\* of p_link, which has advanced once for each pair before the m-th
RECURSIVE ReconstructLoop(_, _, _, _)
ReconstructLoop(pairs, m, sm, st) ==
  IF st.k # m \/ m > Len(pairs) THEN st
  ELSE
    LET index1 == pairs[m][1]
        p == pairs[m][2]
        index0 == pairs[m][3]
        rsep == SiteVector(st.c, index1)
        link == [i |-> index1, j |-> index0, v |-> p,
                 rb |-> <<rsep[X] + lambda * cv[p][X],
                          rsep[Y] + lambda * cv[p][Y]>>,
                 status |-> LINK_UNUSED]
        r == SetLinkStatus(link, st.c, sm, st.f)
    IN  ReconstructLoop(pairs, m + 1, sm,
          [c |-> [r.c EXCEPT !.lnk = PutLink(@, st.k, r.l)],
           f |-> r.f, k |-> st.k + 1])

\* (the existing links left with the status they have)
MarkUnused_none(lnk, k) == lnk
\* Lines 296-301: every existing link is marked unused
RECURSIVE MarkUnused(_, _)
MarkUnused(lnk, k) ==
  IF k > Len(lnk) THEN lnk
  ELSE MarkUnused([lnk EXCEPT ![k].status = LINK_UNUSED], k + 1)

COLL_reconstruct_links(pid, c, cm, sm, dist) ==
  LET unused == MarkUnused(c.lnk, 1)
      st == ReconstructLoop(LinkPairs(pid, c, cm), 1, sm,
                            [c |-> [c EXCEPT !.lnk = unused], f |-> dist,
                             k |-> 1])
  IN  [c |-> st.c, f |-> st.f]

\* -------------------------------------------------- reconstruct_wall_links
\* (the wall links stored from the cursor on, without the search)
FirstUnused_head(lnk, k) == k
\* Position of the first unused link, Len + 1 if there is none (1017-1020)
RECURSIVE FirstUnused(_, _)
FirstUnused(lnk, k) ==
  IF k > Len(lnk) \/ lnk[k].status = LINK_UNUSED THEN k
  ELSE FirstUnused(lnk, k + 1)

\* The pairs of the cube that pass the two tests of lines 1046 and 1061
WallPairs(pid, c, cm, sm) ==
  LET cube == CubeSites(c)
      Test(t) == t[1] \in cube /\ ~(cm[t[1]] # pid) /\ ~(sm[t[3]] # BOUNDARY)
  IN  SelectSeq(LocalPairs, Test)

\* (the wall links stored with v = p in place of NVEL - p)
RECURSIVE WallLoop_samedir(_, _, _)
WallLoop_samedir(pairs, m, st) ==
  IF m > Len(pairs) \/ st.fatal THEN st
  ELSE
    LET index1 == pairs[m][1]
        p == pairs[m][2]
        index0 == pairs[m][3]
        rsep == SiteVector(st.c, index1)
        link == [i |-> index0, j |-> index1, v |-> p,
                 rb |-> <<rsep[X] + lambda * cv[p][X],
                          rsep[Y] + lambda * cv[p][Y]>>,
                 status |-> LINK_BOUNDARY]
    IN  IF st.k > Len(st.c.lnk) /\ Len(st.c.lnk) = 0
        THEN [st EXCEPT !.fatal = TRUE]
        ELSE WallLoop_samedir(pairs, m + 1,
               [st EXCEPT !.c.lnk = PutLink(@, st.k, link), !.k = st.k + 1])

\* Lines 1063-1107 for the pairs[m..]; st = [c, k, fatal]
RECURSIVE WallLoop(_, _, _)
WallLoop(pairs, m, st) ==
  IF m > Len(pairs) \/ st.fatal THEN st
  ELSE
    LET index1 == pairs[m][1]
        p == pairs[m][2]
        index0 == pairs[m][3]
        rsep == SiteVector(st.c, index1)
        link == [i |-> index0, j |-> index1, v |-> NVEL - p,
                 rb |-> <<rsep[X] + lambda * cv[p][X],
                          rsep[Y] + lambda * cv[p][Y]>>,
                 status |-> LINK_BOUNDARY]
    IN  IF st.k > Len(st.c.lnk) /\ Len(st.c.lnk) = 0
        THEN [st EXCEPT !.fatal = TRUE]
        ELSE WallLoop(pairs, m + 1,
               [st EXCEPT !.c.lnk = PutLink(@, st.k, link), !.k = st.k + 1])

reconstruct_wall_links(pid, c, cm, sm) ==
  LET st == WallLoop(WallPairs(pid, c, cm, sm), 1,
                     [c |-> c, k |-> FirstUnused(c.lnk, 1), fatal |-> FALSE])
  IN  [c |-> st.c, fatal |-> st.fatal]

\* -------------------------------------------------------- COLL_reset_links
\* (the loop taking the separation to the inside site j of the link)
RECURSIVE ResetLoop_fromj(_, _, _)
ResetLoop_fromj(k, sm, st) ==
  IF k > Len(st.c.lnk) THEN st
  ELSE
    LET link == st.c.lnk[k]
        rsep == SiteVector(st.c, link.j)
        moved == [link EXCEPT !.rb = <<rsep[X] + lambda * cv[link.v][X],
                                       rsep[Y] + lambda * cv[link.v][Y]>>]
        r == SetLinkStatus(moved, st.c, sm, st.f)
    IN  IF link.status = LINK_UNUSED
        THEN ResetLoop_fromj(k + 1, sm, st)
        ELSE ResetLoop_fromj(k + 1, sm,
               [c |-> [r.c EXCEPT !.lnk[k] = r.l], f |-> r.f])

\* The loop of lines 479-519 from the k-th link on; st = [c, f]
RECURSIVE ResetLoop(_, _, _)
ResetLoop(k, sm, st) ==
  IF k > Len(st.c.lnk) THEN st
  ELSE
    LET link == st.c.lnk[k]
        rsep == SiteVector(st.c, link.i)
        moved == [link EXCEPT !.rb = <<rsep[X] + lambda * cv[link.v][X],
                                       rsep[Y] + lambda * cv[link.v][Y]>>]
        r == SetLinkStatus(moved, st.c, sm, st.f)
    IN  IF link.status = LINK_UNUSED
        THEN ResetLoop(k + 1, sm, st)
        ELSE ResetLoop(k + 1, sm,
               [c |-> [r.c EXCEPT !.lnk[k] = r.l], f |-> r.f])

\* COLL_reset_links dropping the unused records from the list first
COLL_reset_links_compact(c, sm, dist) ==
  LET Used(link) == link.status # LINK_UNUSED
  IN  ResetLoop(1, sm, [c |-> [c EXCEPT !.lnk = SelectSeq(@, Used)],
                        f |-> dist])

COLL_reset_links(c, sm, dist) == ResetLoop(1, sm, [c |-> c, f |-> dist])

\* ------------------------------------------------------- COLL_update_links
\* UpdateColloid without the zeroing of lines 228-230
UpdateColloid_keepsums(pid, c, cm, sm, dist, bp) ==
  LET rec == COLL_reconstruct_links(pid, c, cm, sm, dist)
      wall == IF bp THEN reconstruct_wall_links(pid, rec.c, cm, sm)
              ELSE [c |-> rec.c, fatal |-> FALSE]
      res == COLL_reset_links(c, sm, dist)
  IN  IF c.rebuild
      THEN [c |-> [wall.c EXCEPT !.rebuild = wall.fatal], f |-> rec.f,
            fatal |-> wall.fatal, rebuilt |-> TRUE]
      ELSE [c |-> [res.c EXCEPT !.rebuild = FALSE], f |-> res.f,
            fatal |-> FALSE, rebuilt |-> FALSE]

\* (UpdateColloid without p_colloid->rebuild = 0 of line 243)
UpdateColloid_keepflag(pid, c, cm, sm, dist, bp) ==
  LET c0 == [c EXCEPT !.sumw = 0, !.cbar = <<0, 0>>, !.rxcbar = 0]
      rec == COLL_reconstruct_links(pid, c0, cm, sm, dist)
      wall == IF bp THEN reconstruct_wall_links(pid, rec.c, cm, sm)
              ELSE [c |-> rec.c, fatal |-> FALSE]
      res == COLL_reset_links(c0, sm, dist)
  IN  IF c.rebuild
      THEN [c |-> wall.c, f |-> rec.f,
            fatal |-> wall.fatal, rebuilt |-> TRUE]
      ELSE [c |-> res.c, f |-> res.f,
            fatal |-> FALSE, rebuilt |-> FALSE]

\* Lines 226-245 for one colloid: returns [c, f, fatal, rebuilt]
UpdateColloid(pid, c, cm, sm, dist, bp) ==
  LET c0 == [c EXCEPT !.sumw = 0, !.cbar = <<0, 0>>, !.rxcbar = 0]
      rec == COLL_reconstruct_links(pid, c0, cm, sm, dist)
      wall == IF bp THEN reconstruct_wall_links(pid, rec.c, cm, sm)
              ELSE [c |-> rec.c, fatal |-> FALSE]
      res == COLL_reset_links(c0, sm, dist)
  IN  IF c.rebuild
      THEN [c |-> [wall.c EXCEPT !.rebuild = wall.fatal], f |-> rec.f,
            fatal |-> wall.fatal, rebuilt |-> TRUE]
      ELSE [c |-> [res.c EXCEPT !.rebuild = FALSE], f |-> res.f,
            fatal |-> FALSE, rebuilt |-> FALSE]

\* The colloids of order[k..]; st = [col, f, fatal, built]
RECURSIVE UpdateLoop(_, _, _)
UpdateLoop(order, k, st) ==
  IF k > Len(order) \/ st.fatal THEN st
  ELSE LET pid == order[k]
           r == UpdateColloid(pid, st.col[pid], coll_map, site_map, st.f,
                              boundaries_present)
       IN  UpdateLoop(order, k + 1,
             [col |-> [st.col EXCEPT ![pid] = r.c], f |-> r.f,
              fatal |-> r.fatal,
              built |-> IF r.rebuilt THEN st.built \cup {pid} ELSE st.built])

COLL_update_links ==
  /\ pc = "links"
  /\ \E st \in {UpdateLoop(CellOrder, 1, [col |-> colloid, f |-> f,
                                           fatal |-> FALSE, built |-> {}])} :
         /\ colloid' = st.col
         /\ f' = st.f
         /\ built' = st.built
         /\ rlast' = Table([p \in Particles |->
                              IF p \in st.built THEN colloid[p].r
                              ELSE rlast[p]])
         /\ pc' = IF st.fatal THEN "fatal" ELSE "move"
  /\ UNCHANGED <<nstep, coll_map, coll_old, site_map, g, phi, fd, walls, rrlog>>
  /\ UNCHANGED advvars

\* ----------------------------------------------------------- specification
Next ==
  \/ Move
  \/ COLL_update_map
  \/ COLL_remove_or_replace_fluid
  \/ COLL_update_links

Spec == Init /\ [][Next]_vars

\* ------------------------------------------- advection: steps of a run
advection_order_set ==
  /\ pc = "advection"
  /\ \E n \in 1..5 : order_' = n
  /\ UNCHANGED <<hydro, field, flux>>
  /\ UNCHANGED collvars

advection_x ==
  /\ pc = "advection"
  /\ order_ \in 1..5
  /\ flux' = CASE order_ = 1 -> advection_le_1st(flux, hydro, field)
               [] order_ = 2 -> advection_le_2nd(flux, hydro, field)
               [] order_ = 3 -> advection_le_3rd(flux, hydro, field)
               [] order_ = 4 -> advection_le_4th(flux, hydro, field)
               [] order_ = 5 -> advection_le_5th(flux, hydro, field)
  /\ UNCHANGED <<order_, hydro, field>>
  /\ UNCHANGED collvars

InitAdv ==
  /\ pc = "advection"
  /\ nstep = 0
  /\ colloid = Table([p \in Particles |-> NewColloid(p)])
  /\ coll_map = Table([s \in Sites |-> NULL])
  /\ coll_old = coll_map
  /\ site_map = StatusFluid
  /\ f = InitF
  /\ g = InitG
  /\ phi = InitPhi
  /\ fd = FALSE
  /\ walls = FALSE
  /\ rrlog = <<>>
  /\ built = {}
  /\ rlast = Table([p \in Particles |-> <<>>])
  /\ InitAdvection

NextAdv ==
  \/ advection_order_set
  \/ advection_x

SpecAdv == InitAdv /\ [][NextAdv]_vars


\* =================================================================== claims
\* Links of a table as (fluid-side site, solid-side site, direction, status)
LinkTuples(lnk) ==
  {<<lnk[k].i, lnk[k].j, lnk[k].v, lnk[k].status>> :
     k \in {n \in 1..Len(lnk) : lnk[n].status # LINK_UNUSED}}
HasStatus(lnk, status) == \E k \in 1..Len(lnk) : lnk[k].status = status

\* Sum over the links k.. of a table with status LINK_FLUID of wv[v] * w[v]
RECURSIVE FluidSum(_, _, _)
FluidSum(lnk, k, w) ==
  IF k > Len(lnk) THEN 0
  ELSE (IF lnk[k].status = LINK_FLUID THEN wv[lnk[k].v] * w[lnk[k].v] ELSE 0)
       + FluidSum(lnk, k + 1, w)
One == [p \in 0..(NVEL - 1) |-> 1]
CvX == [p \in 0..(NVEL - 1) |-> cv[p][X]]
CvY == [p \in 0..(NVEL - 1) |-> cv[p][Y]]

\* C1: after COLL_update_links, sumw of every particle is the sum of wv[v]
\* over exactly its LINK_FLUID links and cbar the sum of wv[v]*cv[v] over the
\* same links, whether the particle was rebuilt or reset.
C1_MomentSums ==
  pc # "fatal" =>
    \A p \in Particles :
      /\ colloid[p].sumw = FluidSum(colloid[p].lnk, 1, One)
      /\ colloid[p].cbar = <<FluidSum(colloid[p].lnk, 1, CvX),
                             FluidSum(colloid[p].lnk, 1, CvY)>>

\* A particle has just been reset, with fluid and other links, after an
\* earlier step had left it non-zero sums
C1_Witness ==
  /\ pc = "move" /\ nstep >= 2
  /\ \E p \in Particles \ built :
       /\ HasStatus(colloid[p].lnk, LINK_FLUID)
       /\ HasStatus(colloid[p].lnk, LINK_COLLOID)
       /\ colloid[p].sumw > 0

\* The table a full rebuild of particle p gives from the current snapshot
FullRebuild(p) ==
  UpdateColloid(p, [colloid[p] EXCEPT !.rebuild = TRUE], coll_map, site_map,
                f, boundaries_present).c.lnk

\* C2: a reset of a table left by an earlier full rebuild of a particle
\* whose centre has not changed since (the radius never changes) leaves
\* the same (i, j, v, status) tuples over the non-UNUSED links as a full
\* rebuild from the same snapshot.
C2_ResetEqualsRebuild ==
  (pc = "move" /\ nstep >= 1) =>
    \A p \in Particles \ built :
      colloid[p].r = rlast[p] =>
        LinkTuples(colloid[p].lnk) = LinkTuples(FullRebuild(p))

\* The corrections logged for a site
LogAt(index) == {k \in 1..Len(rrlog) : rrlog[k].site = index}

\* C3: one pass of COLL_remove_or_replace_fluid applies the covered-site
\* correction exactly once, charged to the current owner, at every non-halo
\* site unowned before and owned now; the exposed-site correction exactly
\* once, charged to the previous owner, at every non-halo site owned before
\* and unowned now; and no correction anywhere else.
C3_ClassifiedOnce ==
  pc = "links" =>
    \A index \in Sites :
      LET sold == coll_old[index] # NULL
          snew == coll_map[index] # NULL
      IN  IF ~IsHalo(index) /\ ~sold /\ snew
          THEN \E k \in 1..Len(rrlog) :
                 /\ LogAt(index) = {k}
                 /\ rrlog[k].kind = "remove"
                 /\ rrlog[k].owner = coll_map[index]
          ELSE IF ~IsHalo(index) /\ sold /\ ~snew
          THEN \E k \in 1..Len(rrlog) :
                 /\ LogAt(index) = {k}
                 /\ rrlog[k].kind = "replace"
                 /\ rrlog[k].owner = coll_old[index]
          ELSE LogAt(index) = {}

\* A pass has met both a newly covered and a newly exposed site
C3_Witness ==
  /\ pc = "links"
  /\ \E k \in 1..Len(rrlog) : rrlog[k].kind = "remove"
  /\ \E k \in 1..Len(rrlog) : rrlog[k].kind = "replace"

\* C4: when the two snapshots agree at every site, the pass changes no
\* accumulator (deltam, deltaphi, f0, t0), no rebuild flag and no
\* distribution or order-parameter value.
C4_NoMotionNoChange ==
  [][(pc = "rr" /\ coll_old = coll_map) =>
       (colloid' = colloid /\ f' = f /\ g' = g /\ phi' = phi)]_vars

\* A pass has run over equal, non-empty snapshots
C4_Witness ==
  /\ pc = "links" /\ coll_old = coll_map
  /\ \E index \in Sites : coll_map[index] \in Particles /\ ~IsHalo(index)

\* The replace corrections of the last pass, as positions in the log
Replaced == {k \in 1..Len(rrlog) : rrlog[k].kind = "replace"}
Dirs == 1..(NVEL - 1)

\* Directions from a site to the neighbours that had no owner in the previous
\* snapshot and are not solid; those of them with no owner now either
FluidBefore(index) ==
  {p \in Dirs : /\ coll_old[Neighbour[index][p]] = NULL
                /\ site_map[Neighbour[index][p]] # SOLID}
FluidBoth(index) ==
  {p \in FluidBefore(index) : coll_map[Neighbour[index][p]] = NULL}

\* The wv-weighted average over the neighbours along dirs of a distribution
AverageOver(index, dirs, dist) ==
  LET w == RSum([p \in 0..(NVEL - 1) |->
                   IF p \in dirs THEN RInt(wv[p]) ELSE RZero], 0, RZero).n
  IN  [q \in 0..(NVEL - 1) |->
         RMul(RSum([p \in 0..(NVEL - 1) |->
                      IF p \in dirs
                      THEN RScale(wv[p], dist[Neighbour[index][p]][q])
                      ELSE RZero], 0, RZero),
              RInv(w))]

\* Equality of two doubles: a NaN equals nothing
FEq(x, y) == ~IsNaN(x) /\ ~IsNaN(y) /\ x = y

\* C5: at a newly exposed non-halo site with exactly one eligible neighbour
\* the distribution written is that neighbour's, component by component
\* (the normalisation undoes the weighting), and the previous owner's deltam
\* grows by that neighbour's density less rho0.
C5_SingleNeighbourCopy ==
  pc = "links" =>
    \A k \in Replaced :
      \A p \in FluidBefore(rrlog[k].site) :
        FluidBefore(rrlog[k].site) = {p} =>
          LET n == Neighbour[rrlog[k].site][p]
              drho == RSub(distribution_zeroth_moment(f, n), get_rho0)
          IN  /\ \A q \in 0..(NVEL - 1) : FEq(f[rrlog[k].site][q], f[n][q])
              /\ FEq(rrlog[k].dm1, RAdd(rrlog[k].dm0, drho))

\* C6: a newly exposed non-halo site with no eligible neighbour ends the run
\* with a fatal error, so no pass completes a replacement at such a site.
C6_FatalWithoutNeighbour ==
  pc = "links" => \A k \in Replaced : FluidBefore(rrlog[k].site) # {}

\* C7 (as stated): a neighbour enters the average only if it is fluid in
\* both snapshots, so what is written is an average over some of the
\* neighbours fluid in both; a newly covered neighbour is never included.
C7_FluidInBothSnapshots ==
  pc = "links" =>
    \A k \in Replaced :
      \E dirs \in SUBSET FluidBoth(rrlog[k].site) :
        f[rrlog[k].site] = AverageOver(rrlog[k].site, dirs, f)

\* C7 (amended): the neighbours averaged are exactly those with no owner in
\* the previous snapshot whose site status is not SOLID, whatever the
\* current snapshot says of them.
C7_FluidBefore ==
  pc = "links" =>
    \A k \in Replaced :
      /\ f[rrlog[k].site]
           = AverageOver(rrlog[k].site, FluidBefore(rrlog[k].site), f)
      /\ ~fd => g[rrlog[k].site]
                  = AverageOver(rrlog[k].site, FluidBefore(rrlog[k].site), g)

\* A replacement has averaged over a neighbour that is newly covered, and
\* over one that is fluid in both snapshots
C7_Witness ==
  /\ pc = "links"
  /\ \E k \in Replaced :
       /\ FluidBoth(rrlog[k].site) # {}
       /\ FluidBefore(rrlog[k].site) # FluidBoth(rrlog[k].site)

\* C8: a wall link has status LINK_BOUNDARY and keeps it through every
\* reset; only a full rebuild takes it away (to LINK_UNUSED).
C8_BoundaryKept ==
  [][pc = "links" =>
       \A p \in Particles :
         ~colloid[p].rebuild =>
           \A k \in 1..Len(colloid[p].lnk) :
             colloid[p].lnk[k].status = LINK_BOUNDARY =>
               colloid'[p].lnk[k].status = LINK_BOUNDARY]_vars

\* C9: COLL_reset_links adds, removes and reorders no record and changes no
\* i, j or v; it leaves LINK_UNUSED records as they are and sets no record
\* to LINK_UNUSED: only rb and status of the other records may change.
C9_ResetKeepsRecords ==
  [][pc = "links" =>
       \A p \in Particles :
         ~colloid[p].rebuild =>
           LET old == colloid[p].lnk
               new == colloid'[p].lnk
           IN  /\ Len(new) = Len(old)
               /\ \A k \in 1..Len(old) :
                    /\ new[k].i = old[k].i
                    /\ new[k].j = old[k].j
                    /\ new[k].v = old[k].v
                    /\ old[k].status = LINK_UNUSED => new[k] = old[k]
                    /\ old[k].status # LINK_UNUSED
                         => new[k].status # LINK_UNUSED]_vars

\* A reset has run over a table holding unused and used records, after the
\* particle has moved
C9_Witness ==
  /\ pc = "move"
  /\ \E p \in Particles \ built :
       /\ HasStatus(colloid[p].lnk, LINK_UNUSED)
       /\ HasStatus(colloid[p].lnk, LINK_FLUID)
       /\ rlast[p] # <<>>

\* The links a rebuild of particle p finds: those around the particle and,
\* with boundaries present, those to the wall
FoundLinks(p) ==
  LET cube == CubeSites(colloid[p])
      own == {t \in cube \X Dirs :
                coll_map[t[1]] # p /\ coll_map[Neighbour[t[1]][t[2]]] = p}
      wall == {t \in cube \X Dirs :
                 /\ boundaries_present
                 /\ coll_map[t[1]] = p
                 /\ site_map[Neighbour[t[1]][t[2]]] = BOUNDARY}
  IN  Cardinality(own) + Cardinality(wall)

\* C10: the number of records of a particle never decreases, and a rebuild
\* allocates only when every record is assigned, so that after it the
\* number is the larger of the number before and the links found.
C10_RecordCount ==
  [][\A p \in Particles :
       /\ Len(colloid'[p].lnk) >= Len(colloid[p].lnk)
       /\ (pc = "links" /\ pc' = "move" /\ colloid[p].rebuild)
            => Len(colloid'[p].lnk)
                 = imax(Len(colloid[p].lnk), FoundLinks(p))]_vars

\* A rebuild has found fewer links than the table holds, and another more
C10_Witness ==
  /\ pc = "move"
  /\ \E p \in built : HasStatus(colloid[p].lnk, LINK_UNUSED)
  /\ \E p \in built : ~HasStatus(colloid[p].lnk, LINK_UNUSED)

\* ------------------------------------------------------------------- C11
\* Coordinates of the halo-extended domain and the index of (i, j) there
ExtCoords == ((1 - nhalo_)..(NX + nhalo_)) \X ((1 - nhalo_)..(NY + nhalo_))
Owner(ij) == IF ij \in ExtCoords THEN coll_map[get_site_index(ij[X], ij[Y])]
             ELSE NULL

\* The bounding box [floor(r - a0), ceil(r + a0)] of a particle clipped to
\* the coordinates lo..hi of each dimension
BoxClipped(c, lo, hi) ==
  {ij \in ExtCoords :
     \A d \in {X, Y} : /\ imax(lo, floor(c.r[d] - c.a0)) <= ij[d]
                       /\ ij[d] <= imin(hi[d], ceil(c.r[d] + c.a0))}

\* The (i, j, v) of the links between an outside site of a box and a site
\* the particle owns
ExpectedLinks(p, box) ==
  {<<get_site_index(ij[X], ij[Y]),
     get_site_index(ij[X] + cv[q][X], ij[Y] + cv[q][Y]), q>> :
     <<ij, q>> \in {t \in box \X Dirs :
                     /\ Owner(t[1]) # p
                     /\ Owner(<<t[1][X] + cv[t[2]][X],
                                t[1][Y] + cv[t[2]][Y]>>) = p}}

\* The particle links of a table, as positions, and their (i, j, v)
ParticleLinks(lnk) ==
  {k \in 1..Len(lnk) : lnk[k].status \in {LINK_FLUID, LINK_COLLOID}}
LinkEnds(lnk, ks) == {<<lnk[k].i, lnk[k].j, lnk[k].v>> : k \in ks}

\* C11 (as stated): after a rebuild of particle P its FLUID/COLLOID links
\* are, each exactly once, the (i = s, j = s + cv[p], v = p) with s in the
\* bounding box clipped to the local domain extended by the halo, s not
\* owned by P and s + cv[p] owned by P; outside sites in the halo are
\* included.
C11_LinksOverHaloBox ==
  (pc = "move" /\ nstep >= 1) =>
    \A p \in built :
      LET ks == ParticleLinks(colloid[p].lnk)
          box == BoxClipped(colloid[p], 1 - nhalo_,
                            <<NX + nhalo_, NY + nhalo_>>)
      IN  /\ LinkEnds(colloid[p].lnk, ks) = ExpectedLinks(p, box)
          /\ Cardinality(ks) = Cardinality(ExpectedLinks(p, box))

\* C11 (amended): the same with the bounding box clipped to the local
\* domain 1..N: the outside site of a link is never a halo site, while the
\* inside site may be one.
C11_LinksOverLocalBox ==
  (pc = "move" /\ nstep >= 1) =>
    \A p \in built :
      LET ks == ParticleLinks(colloid[p].lnk)
          box == BoxClipped(colloid[p], 1, <<NX, NY>>)
      IN  /\ LinkEnds(colloid[p].lnk, ks) = ExpectedLinks(p, box)
          /\ Cardinality(ks) = Cardinality(ExpectedLinks(p, box))

\* A rebuilt particle has links, owns a site with an outside neighbour in
\* the halo, and has a link whose inside site is in the halo
C11_Witness ==
  /\ pc = "move"
  /\ \E p \in built :
       /\ ExpectedLinks(p, BoxClipped(colloid[p], 1, <<NX, NY>>))
            # ExpectedLinks(p, BoxClipped(colloid[p], 1 - nhalo_,
                                         <<NX + nhalo_, NY + nhalo_>>))
       /\ \E k \in ParticleLinks(colloid[p].lnk) :
            IsHalo(colloid[p].lnk[k].j)

\* ------------------------------------------------------------------- C12
\* C12 (as stated): in rebuild and reset a particle link is FLUID exactly
\* when its outside site i has no owner in the current map and COLLOID
\* exactly when it has one, so that an unowned wall site gives a FLUID link.
\* (Without boundaries every used link is a particle link.)
C12_StatusByOccupancy ==
  (pc = "move" /\ nstep >= 1 /\ ~walls) =>
    \A p \in Particles :
      \A k \in ParticleLinks(colloid[p].lnk) :
        (colloid[p].lnk[k].status = LINK_FLUID)
          <=> (coll_map[colloid[p].lnk[k].i] = NULL)

\* C12 (amended): the link is FLUID exactly when the site status of i is
\* FLUID, which implies that i has no owner; it is COLLOID otherwise, that
\* is when i is owned by a particle or is an unowned SOLID or BOUNDARY site.
C12_StatusBySiteStatus ==
  (pc = "move" /\ nstep >= 1) =>
    \A p \in Particles :
      \A k \in ParticleLinks(colloid[p].lnk) :
        LET link == colloid[p].lnk[k]
        IN  /\ (link.status = LINK_FLUID) <=> (site_map[link.i] = FLUID)
            /\ link.status = LINK_FLUID => coll_map[link.i] = NULL
            /\ link.status = LINK_COLLOID =>
                  \/ coll_map[link.i] # NULL
                  \/ site_map[link.i] \in {SOLID, BOUNDARY}

\* A reset has left a particle a link to an unowned solid site, a link to a
\* site another particle owns and a link to a fluid site
C12_Witness ==
  /\ pc = "move"
  /\ \E p \in Particles \ built :
       /\ \E k \in ParticleLinks(colloid[p].lnk) :
            /\ coll_map[colloid[p].lnk[k].i] = NULL
            /\ site_map[colloid[p].lnk[k].i] = SOLID
       /\ \E k \in ParticleLinks(colloid[p].lnk) :
            coll_map[colloid[p].lnk[k].i] \in Particles \ {p}
       /\ HasStatus(colloid[p].lnk, LINK_FLUID)

\* ------------------------------------------------------------------- C13
\* The particles whose interior, as COLL_update_map tests it, holds a site
Claimants(index) == {p \in Particles : Inside(colloid[p], index)}

\* C13: COLL_update_map assigns a site only when it has no owner yet in the
\* snapshot: a site inside two particles stops the run with an assertion
\* failure, so no call completes with such a site.
C13_NoDoubleClaim ==
  pc = "rr" => \A index \in Sites : Cardinality(Claimants(index)) <= 1

\* ------------------------------------------------------------------- C14
\* Squared minimum-image distance (units of 1/Q) from a centre to a site
MinImage2(d, x) ==
  LET c == {(x + k * Q * L(d)) * (x + k * Q * L(d)) : k \in -1..1}
  IN  CHOOSE m \in c : \A n \in c : m <= n
Distance2(r, index) ==
  MinImage2(X, Q * COM_index2coord[index][X] - r[X])
    + MinImage2(Y, Q * COM_index2coord[index][Y] - r[Y])

\* C14: a call of COLL_update_map leaves in coll_old, at every site, the
\* owner coll_map held before the call, and in coll_map no owner other than
\* a particle of the cell lists that holds the site strictly inside its
\* radius at this call.
C14_SwapAndClear ==
  [][pc = "map" =>
       /\ \A index \in Sites : coll_old'[index] = coll_map[index]
       /\ \A index \in Sites :
            coll_map'[index] # NULL =>
              /\ coll_map'[index] \in Particles
              /\ Distance2(colloid[coll_map'[index]].r, index)
                   < colloid[coll_map'[index]].a0
                       * colloid[coll_map'[index]].a0]_vars

\* A call has dropped the owner of one site and given an owner to another
C14_Witness ==
  /\ pc = "rr" /\ nstep >= 2
  /\ \E index \in Sites :
       coll_old[index] \in Particles /\ coll_map[index] = NULL
  /\ \E index \in Sites :
       coll_old[index] = NULL /\ coll_map[index] \in Particles

\* ------------------------------------------------------------------- C15
\* Sites with a coordinate outside 1..N, and the sites whose ownership
\* differs between the two snapshots
OutsideLocal(index) ==
  \E d \in {X, Y} :
    COM_index2coord[index][d] < 1 \/ COM_index2coord[index][d] > N[d]
Covered == {index \in Sites : coll_old[index] = NULL /\ coll_map[index] # NULL}
Exposed == {index \in Sites : coll_old[index] # NULL /\ coll_map[index] = NULL}

\* C15: at a halo site whose ownership changed, a completed pass of
\* COLL_remove_or_replace_fluid sets the rebuild flag of the particle
\* concerned and nothing else: no distribution or order-parameter value of a
\* halo site changes, no correction is applied there, and a pass whose
\* changed sites all lie in the halo changes no field of any Colloid other
\* than the rebuild flag.
C15_HaloOnlyFlags ==
  [][(pc = "rr" /\ pc' = "links") =>
       /\ \A index \in Sites :
            OutsideLocal(index) =>
              /\ f'[index] = f[index] /\ g'[index] = g[index]
              /\ phi'[index] = phi[index]
              /\ \A k \in 1..Len(rrlog') : rrlog'[k].site # index
              /\ index \in Covered => colloid'[coll_map[index]].rebuild
              /\ index \in Exposed => colloid'[coll_old[index]].rebuild
       /\ (\A index \in Covered \cup Exposed : OutsideLocal(index)) =>
            /\ f' = f /\ g' = g /\ phi' = phi
            /\ \A p \in Particles :
                 colloid'[p]
                   = [colloid[p] EXCEPT !.rebuild = colloid'[p].rebuild]]_vars

\* A pass has run in which only a halo site changed owner, after earlier
\* passes have left a non-zero correction
C15_Witness ==
  /\ pc = "links"
  /\ Covered \cup Exposed # {}
  /\ \A index \in Covered \cup Exposed : OutsideLocal(index)
  /\ \E p \in Particles : colloid[p].rebuild /\ colloid[p].deltam # RZero

\* ------------------------------------------------------------------- C16
\* C16: when the only site to change owner in a pass is a newly covered
\* site of the local domain, the new owner's deltam grows by (rho - rho0),
\* its deltaphi by (phi - phi0), its f0 by the momentum g of the site and
\* its t0 by rb x g, and the distribution at the site is not modified.
C16_CoveredAccumulates ==
  [][(pc = "rr" /\ pc' = "links") =>
       \A index \in Covered :
         (Covered \cup Exposed = {index} /\ ~OutsideLocal(index)) =>
           LET p == coll_map[index]
               rho == distribution_zeroth_moment(f, index)
               mom == distribution_first_moment(f, index)
               phv == IF fd THEN phi[index]
                      ELSE distribution_zeroth_moment(g, index)
               rb == SiteVector(colloid[p], index)
           IN  /\ colloid'[p].deltam
                    = RAdd(colloid[p].deltam, RSub(rho, get_rho0))
               /\ colloid'[p].deltaphi
                    = RAdd(colloid[p].deltaphi, RSub(phv, get_phi0))
               /\ colloid'[p].f0 = UTIL_fvector_add(colloid[p].f0, mom)
               /\ colloid'[p].t0 = RAdd(colloid[p].t0, CrossRU(rb, mom))
               /\ f'[index] = f[index] /\ g'[index] = g[index]
               /\ phi'[index] = phi[index]]_vars

\* ------------------------------------------------------------------- C17
\* The wv-weighted average over the neighbours along dirs of the site values
AverageSite(index, dirs, ph) ==
  LET w == RSum([p \in 0..(NVEL - 1) |->
                   IF p \in dirs THEN RInt(wv[p]) ELSE RZero], 0, RZero).n
  IN  RMul(RSum([p \in 0..(NVEL - 1) |->
                   IF p \in dirs THEN RScale(wv[p], ph[Neighbour[index][p]])
                   ELSE RZero], 0, RZero),
           RInv(w))

\* C17: in finite-difference mode the order-parameter value written at a
\* newly exposed site is the wv-weighted average of the values at its
\* eligible neighbours; the site's own previous value does not enter.
C17_PhiNeighbourAverage ==
  (pc = "links" /\ fd) =>
    \A k \in Replaced :
      phi[rrlog[k].site]
        = AverageSite(rrlog[k].site, FluidBefore(rrlog[k].site), phi)

\* ------------------------------------------------------------------- C18
\* The wall links of a table, as positions
WallLinks(lnk) == {k \in 1..Len(lnk) : lnk[k].status = LINK_BOUNDARY}

\* The (i, j, v) the wall links of particle p are to have: one for each site
\* of the local domain it owns and each direction to a BOUNDARY site
ExpectedWallLinks(p) ==
  {<<Neighbour[t[1]][t[2]], t[1], NVEL - t[2]>> :
     t \in {u \in Sites \X Dirs :
              /\ ~OutsideLocal(u[1])
              /\ coll_map[u[1]] = p
              /\ site_map[Neighbour[u[1]][u[2]]] = BOUNDARY}}

\* C18: after a rebuild with boundaries present the wall links of particle
\* P are, each once, (i = s + cv[p], j = s, v = NVEL - p) for the sites s of
\* the local domain P owns and the directions p to a BOUNDARY site; v is
\* the direction opposite to p, so that j = i + cv[v].
C18_WallLinks ==
  /\ \A p \in Dirs : cv[NVEL - p] = <<-cv[p][X], -cv[p][Y]>>
  /\ (pc = "move" /\ nstep >= 1 /\ boundaries_present) =>
       \A p \in built :
         LET ks == WallLinks(colloid[p].lnk)
         IN  /\ LinkEnds(colloid[p].lnk, ks) = ExpectedWallLinks(p)
             /\ Cardinality(ks) = Cardinality(ExpectedWallLinks(p))
             /\ \A k \in ks :
                  LET link == colloid[p].lnk[k]
                      ri == COM_index2coord[link.i]
                  IN  COM_index2coord[link.j]
                        = <<ri[X] + cv[link.v][X], ri[Y] + cv[link.v][Y]>>

\* A rebuild has given a particle wall links, to a wall site of the halo
\* and to one of the local domain, besides links to fluid
C18_Witness ==
  /\ pc = "move"
  /\ \E p \in built :
       /\ \E k \in WallLinks(colloid[p].lnk) :
            OutsideLocal(colloid[p].lnk[k].i)
       /\ \E k \in WallLinks(colloid[p].lnk) :
            ~OutsideLocal(colloid[p].lnk[k].i)
       /\ HasStatus(colloid[p].lnk, LINK_FLUID)

\* ------------------------------------------------------------------- C19
\* A FLUID or COLLOID link of particle p agrees with the current map
LinkConsistent(p, link) ==
  /\ coll_map[link.j] = p
  /\ coll_map[link.i] # p
  /\ COM_index2coord[link.j]
       = <<COM_index2coord[link.i][X] + cv[link.v][X],
           COM_index2coord[link.i][Y] + cv[link.v][Y]>>
  /\ link.status = LINK_FLUID => coll_map[link.i] = NULL
  /\ link.status = LINK_COLLOID => coll_map[link.i] \in Particles \ {p}

\* C19: after COLL_update_links of every step each FLUID or COLLOID link of
\* each particle P, rebuilt or reset, has coll_map[j] = P, coll_map[i] # P
\* and j = i + cv[v]; the outside site of a FLUID link has no owner and that
\* of a COLLOID link is owned by another particle.
C19_LinksMatchMap ==
  (pc = "move" /\ nstep >= 1) =>
    \A p \in Particles :
      \A k \in ParticleLinks(colloid[p].lnk) :
        LinkConsistent(p, colloid[p].lnk[k])

\* ------------------------------------------------------------------- C20
\* The used records of a table, in order and with every field
UsedLinks(lnk) ==
  LET Used(link) == link.status # LINK_UNUSED
  IN  SelectSeq(lnk, Used)

\* Other link tables a particle could bring to a rebuild: none, one record,
\* the same records twice over, and records all holding the same used link
JunkLink ==
  [i |-> 0, j |-> 0, v |-> 1, rb |-> <<0, 0>>, status |-> LINK_FLUID]
PriorTables(lnk) ==
  {<<>>, SubSeq(lnk, 1, imin(1, Len(lnk))), lnk \o lnk,
   [k \in 1..Len(lnk) |-> JunkLink] \o <<JunkLink>>}

\* C20: a full rebuild gives the same sequence of used links (i, j, v,
\* status, rb) and the same sumw, cbar and rxcbar whatever link table the
\* particle had before, its length, statuses and field contents included.
C20_RebuildIgnoresPrior ==
  [][(pc = "links" /\ pc' = "move") =>
       \A p \in Particles :
         colloid[p].rebuild =>
           \A prior \in PriorTables(colloid[p].lnk) :
             LET c == UpdateColloid(p, [colloid[p] EXCEPT !.lnk = prior],
                                    coll_map, site_map, f,
                                    boundaries_present).c
             IN  /\ UsedLinks(c.lnk) = UsedLinks(colloid'[p].lnk)
                 /\ c.sumw = colloid'[p].sumw
                 /\ c.cbar = colloid'[p].cbar
                 /\ c.rxcbar = colloid'[p].rxcbar]_vars

\* A rebuild has run over a table with more records than it found links,
\* leaving fluid and colloid links and unused records
C20_Witness ==
  /\ pc = "move" /\ nstep >= 2
  /\ \E p \in built :
       /\ HasStatus(colloid[p].lnk, LINK_UNUSED)
       /\ HasStatus(colloid[p].lnk, LINK_FLUID)
       /\ HasStatus(colloid[p].lnk, LINK_COLLOID)

\* ------------------------------------------------------------------- C21
\* The (i, j, v) of the records of a table, position by position
RecordEnds(lnk) == [k \in 1..Len(lnk) |-> <<lnk[k].i, lnk[k].j, lnk[k].v>>]

\* C21: COLL_update_links fully rebuilds exactly the particles whose rebuild
\* flag is set on entry (their particle links become those the current map
\* calls for, their wall links those the walls call for), resets the others
\* (their records keep place and ends), and returns with every flag clear.
C21_RebuildByFlag ==
  [][(pc = "links" /\ pc' = "move") =>
       \A p \in Particles :
         /\ ~colloid'[p].rebuild
         /\ p \in built' <=> colloid[p].rebuild
         /\ colloid[p].rebuild =>
              /\ LinkEnds(colloid'[p].lnk, ParticleLinks(colloid'[p].lnk))
                   = ExpectedLinks(p, BoxClipped(colloid[p], 1, <<NX, NY>>))
              /\ LinkEnds(colloid'[p].lnk, WallLinks(colloid'[p].lnk))
                   = IF boundaries_present THEN ExpectedWallLinks(p) ELSE {}
         /\ ~colloid[p].rebuild =>
              RecordEnds(colloid'[p].lnk) = RecordEnds(colloid[p].lnk)]_vars

\* A call has rebuilt one particle, flagged on entry, and reset the other,
\* whose table no longer holds the links the map calls for
C21_Witness ==
  /\ pc = "move" /\ nstep >= 2
  /\ \E p \in built : HasStatus(colloid[p].lnk, LINK_FLUID)
  /\ \E p \in Particles \ built :
       LinkEnds(colloid[p].lnk, ParticleLinks(colloid[p].lnk))
         # ExpectedLinks(p, BoxClipped(colloid[p], 1, <<NX, NY>>))

\* ------------------------------------------------------------------- C23
\* y is a minimum image of the displacement x along dimension d (units of
\* 1/Q): it differs from x by a whole number of box lengths and is no longer
\* than half a box length
IsMinImage(d, x, y) ==
  /\ (y - x) % (Q * L(d)) = 0
  /\ 2 * y <= Q * L(d) /\ 2 * y >= -(Q * L(d))

\* rb of a link is a minimum-image vector from the centre r to site i plus
\* half of cv[v]
MidpointOfLink(r, link) ==
  \A d \in {X, Y} :
    IsMinImage(d, Q * COM_index2coord[link.i][d] - r[d],
               link.rb[d] - lambda * cv[link.v][d])

\* C23: after a rebuild or a reset every used link of a particle has rb
\* equal to the minimum-image vector from the centre to site i plus half of
\* cv[v]; the rb a rebuild wrote for a wall link (from j and p) is the rb a
\* reset then recomputes (from i and v) when the particle has not moved.
C23_LinkMidpoint ==
  [][(pc = "links" /\ pc' = "move") =>
       \A p \in Particles :
         \A k \in 1..Len(colloid'[p].lnk) :
           /\ colloid'[p].lnk[k].status # LINK_UNUSED =>
                MidpointOfLink(colloid[p].r, colloid'[p].lnk[k])
           /\ ( /\ ~colloid[p].rebuild
                /\ colloid[p].lnk[k].status = LINK_BOUNDARY
                /\ colloid[p].r = rlast[p] ) =>
                colloid'[p].lnk[k].rb = colloid[p].lnk[k].rb]_vars

\* A reset has recomputed the links of a particle that has moved since its
\* rebuild, and a rebuild has left a wall link
C23_Witness ==
  /\ pc = "move"
  /\ \E p \in Particles \ built :
       /\ HasStatus(colloid[p].lnk, LINK_FLUID)
       /\ rlast[p] # <<>> /\ rlast[p] # colloid[p].r
  /\ \E p \in built : HasStatus(colloid[p].lnk, LINK_BOUNDARY)

\* ------------------------------------------------------------------- C24
\* C24: no step changes the site status of a wall site: a site whose
\* status is BOUNDARY or SOLID keeps it, and COLL_update_map only turns
\* FLUID into COLLOID and COLLOID back into FLUID.
C24_WallStatusKept ==
  [][\A index \in Sites :
       /\ site_map[index] \in {BOUNDARY, SOLID}
            => site_map'[index] = site_map[index]
       /\ site_map'[index] # site_map[index]
            => <<site_map[index], site_map'[index]>>
                 \in {<<FLUID, COLLOID>>, <<COLLOID, FLUID>>}]_vars

\* ------------------------------------------------------------------- C25
\* C25: when the only site to change owner in a pass is a newly exposed
\* site of the local domain, the previous owner's deltaphi decreases by
\* (the order-parameter value written at the site - phi0), in
\* finite-difference mode as in distribution mode.
C25_ExposedDeltaphi ==
  [][(pc = "rr" /\ pc' = "links") =>
       \A index \in Exposed :
         (Covered \cup Exposed = {index} /\ ~OutsideLocal(index)) =>
           LET p == coll_old[index]
               written == IF fd THEN phi'[index]
                          ELSE distribution_zeroth_moment(g', index)
           IN  colloid'[p].deltaphi
                 = RSub(colloid[p].deltaphi, RSub(written, get_phi0))]_vars


\* ---------------------------------------------------------------- C26
\* twice the velocity at the face between (ic, jc) and (ic + 1, jc)
EastFaceU(ic, jc) ==
  hydro[le_site_index(ic, jc)][X] + hydro[le_site_index(ic + 1, jc)][X]
InteriorFaces == (1..(NX - 1)) \X ((1 - nhalo)..(NY + nhalo))

\* C26: whatever orders advection_x has been run with, each x-face between
\* two sites of the local domain carries one flux: for every row jc and every
\* field component n the east-face flux fe stored at (ic, jc) equals the
\* west-face flux fw stored at (ic + 1, jc), whether the face velocity is
\* positive, negative or zero.
C26_UniqueFaceFlux ==
  \A s \in InteriorFaces, n \in 0..(nf - 1) :
     flux.fe[nf * le_site_index(s[1], s[2]) + n]
       = flux.fw[nf * le_site_index(s[1] + 1, s[2]) + n]

\* The fluxes are those of the fifth order scheme, and among the interior
\* faces there is one of positive, one of negative and one of zero velocity,
\* the first two with a flux that is not zero.
C26_Witness ==
  /\ order_ = 5
  /\ flux = advection_le_5th(flux, hydro, field)
  /\ \E s \in InteriorFaces :
        /\ s[2] \in 0..NY
        /\ EastFaceU(s[1], s[2]) > 0
        /\ flux.fe[nf * le_site_index(s[1], s[2])] # 0
  /\ \E s \in InteriorFaces :
        /\ s[2] \in 0..NY
        /\ EastFaceU(s[1], s[2]) < 0
        /\ flux.fe[nf * le_site_index(s[1], s[2])] # 0
  /\ \E s \in InteriorFaces :
        /\ s[2] \in 0..NY
        /\ EastFaceU(s[1], s[2]) = 0
        /\ hydro[le_site_index(s[1], s[2])][X] # 0


\* ---------------------------------------------------------------- C27
\* no record in use comes after an unused record
UsedFirst(lnk) ==
  \A j, k \in 1..Len(lnk) :
     (j < k /\ lnk[j].status = LINK_UNUSED) => lnk[k].status = LINK_UNUSED
\* the records the rebuild gave status FLUID or COLLOID, by position
RebuildRecords(p) ==
  LET lnk == COLL_reconstruct_links(p, colloid[p], coll_map, site_map, f).c.lnk
  IN  [k \in {n \in 1..Len(lnk) :
                lnk[n].status \in {LINK_FLUID, LINK_COLLOID}} |-> lnk[k]]

\* C27: after every COLL_update_links, in each particle's list no record in
\* use comes after an unused record, and for each particle rebuilt in the
\* step every record the rebuild gave status FLUID or COLLOID is still in
\* its place, unchanged, after the wall links have been stored.
C27_UsedLinksFirst ==
  [][COLL_update_links =>
       /\ \A p \in Particles : UsedFirst(colloid'[p].lnk)
       /\ \A p \in built' :
            \A k \in DOMAIN RebuildRecords(p) :
               /\ k <= Len(colloid'[p].lnk)
               /\ colloid'[p].lnk[k] = RebuildRecords(p)[k]]_vars

\* A particle rebuilt with walls present whose list holds, in this order, a
\* FLUID or COLLOID record, a BOUNDARY record and an unused record.
C27_Witness ==
  /\ pc = "move"
  /\ walls
  /\ \E p \in built :
        \E i, j, k \in 1..Len(colloid[p].lnk) :
           /\ i < j /\ j < k
           /\ colloid[p].lnk[i].status \in {LINK_FLUID, LINK_COLLOID}
           /\ colloid[p].lnk[j].status = LINK_BOUNDARY
           /\ colloid[p].lnk[k].status = LINK_UNUSED


\* ---------------------------------------------------------------- C28
\* the sites a snapshot records as owned by particle p
OwnedIn(map, p) == {s \in Sites : map[s] = p}

\* C28: after a completed COLL_remove_or_replace_fluid the rebuild flag is
\* set for every particle whose set of owned sites differs between the
\* previous and the current snapshot, the hand-over of a site from one
\* particle to another included.
C28_RebuildOnChange ==
  [][(COLL_remove_or_replace_fluid /\ pc' = "links") =>
       \A p \in Particles :
          OwnedIn(coll_map, p) # OwnedIn(coll_old, p) => colloid'[p].rebuild]_vars


\* ---------------------------------------------------------------- C29
\* other orders of visiting the sites: the reverse, and any two exchanged
ReverseSeq(s) == [k \in 1..Len(s) |-> s[Len(s) + 1 - k]]
SwapSeq(s, i, j) ==
  [k \in 1..Len(s) |-> IF k = i THEN s[j] ELSE IF k = j THEN s[i] ELSE s[k]]
OtherOrders(s) ==
  {ReverseSeq(s)} \cup {SwapSeq(s, i, j) : i, j \in 1..Len(s)}
\* what a pass over the sites in the given order leaves behind
PassResult(sites) ==
  LET st == RRLoop(sites, 1, [col |-> colloid, f |-> f, g |-> g, phi |-> phi,
                              log |-> <<>>, crashed |-> FALSE])
  IN  <<st.col, st.f, st.g, st.phi, st.crashed>>
\* the local sites at which the pass writes
WrittenSites ==
  {s \in Sites : coll_old[s] # NULL /\ coll_map[s] = NULL /\ ~OutsideLocal(s)}

\* C29: in a completed pass of COLL_remove_or_replace_fluid the values
\* written at a newly exposed site are those computed from the values the
\* lattice held before the pass (nothing written in the pass is read), and
\* the distributions, the site values and every particle's accumulators
\* come out the same when the sites are visited in reverse order or with
\* any two sites exchanged.
C29_OrderIndependent ==
  [][(COLL_remove_or_replace_fluid /\ pc' = "links") =>
       /\ \A s \in WrittenSites :
            /\ f'[s] = NewDist(s, coll_old, site_map, f)
            /\ ~fd => g'[s] = NewDist(s, coll_old, site_map, g)
       /\ \A o \in OtherOrders(ChangedSites) :
            PassResult(o) = <<colloid', f', g', phi', FALSE>>]_vars

\* A completed pass that wrote at two neighbouring sites and corrected for
\* a newly covered site as well.
C29_Witness ==
  /\ pc = "links"
  /\ \E i, j, k \in 1..Len(rrlog) :
        /\ rrlog[i].kind = "replace" /\ rrlog[j].kind = "replace"
        /\ rrlog[k].kind = "remove"
        /\ rrlog[i].site # rrlog[j].site
        /\ \E p \in 1..(NVEL - 1) :
              Neighbour[rrlog[i].site][p] = rrlog[j].site


\* ---------------------------------------------------------------- C30
\* a snapshot that records no owner at any site
EmptyMap(map) == \A s \in Sites : map[s] = NULL

\* C30: before the first step both snapshots record no owner at any site;
\* in the first step, once COLL_update_map has run, the previous snapshot
\* records no owner at any site, no site counts as newly exposed and the
\* newly covered sites are exactly the sites inside a particle.
C30_EmptyAtStart ==
  /\ nstep = 0 => (EmptyMap(coll_map) /\ EmptyMap(coll_old))
  /\ (nstep = 1 /\ pc \in {"rr", "links"}) =>
        /\ EmptyMap(coll_old)
        /\ Exposed = {}
        /\ Covered = {s \in Sites : Claimants(s) # {}}

====
